---- MODULE Spec2Model ----
(***************************************************************************)
(* yeti - asynchronous thread-safe logger.                                 *)
(*                                                                         *)
(* State machine of the delivery pipeline of src/src/logger.cc (Logger:    *)
(* task queue, execution list, ProcessingLoop, Flush, Shutdown), of the    *)
(* logging macros CRT/ERR/WRN/INF/DBG/TRC (macro.h part of logger.cc) and  *)
(* of the helpers of src/unnamed/part_000 (_GetMsgId, _IncMsgId,           *)
(* _EnqueueLogTask, GetLogLevel, SetLogLevel, FlushLog, ShutdownLog).      *)
(*                                                                         *)
(* Threads: the producers (application threads running log macros), one    *)
(* control thread (calls SetLogLevel, FlushLog, ShutdownLog one after the  *)
(* other) and the worker thread running Logger::ProcessingLoop.            *)
(*                                                                         *)
(* Granularity: one action per statement that touches shared state.  A     *)
(* critical section that is entered and left inside one call without       *)
(* blocking in between (EnqueueTask, IsQueueEmpty, IsExecListEmpty) is one *)
(* action guarded by the mutex being free.  The worker holds its mutexes   *)
(* across actions.                                                         *)
(***************************************************************************)
EXTENDS Integers, Sequences, FiniteSets, TLC

\* ------------------------------------------------------------------ bounds
\* EnqueueTask calls issued by all producers together
MaxCalls == 3
\* log macro calls issued by all producers together
MaxLogCalls == 3
\* FlushLog() calls of the control thread
MaxFlush == 1
\* ShutdownLog() calls of the control thread
MaxShutdown == 2
\* SetLogLevel() calls of the control thread
MaxSetLevel == 1
\* SetLogFormatStr/SetLogFileDesc/SetLogColored/CloseLogFileDesc calls of the
\* control thread
MaxCfgCalls == 2
\* log macro calls issued while the settings are being changed
MaxCfgLogCalls == 2
\* signals delivered to the process
MaxSignals == 1
\* length of the format template handed to _CreateLogStr
MaxTmplLen == 4
\* length of the message handed to _CreateLogStr
MaxMsgLen == 2
\* replacements of _CreateLogStr that are followed
MaxRep == 6
\* calls of EnqueueTask, IsQueueEmpty, IsExecListEmpty and Flush in the
\* model of the locking protocol
MaxLockCalls == 4

Producers == {"p1", "p2"}

\* the six logging macros, named by the level tag they stamp
Levels == {"TRC", "DBG", "INF", "WRN", "ERR", "CRT"}

\* value of cur[t].id before the thread's first log call
NoId == 0 - 1
\* value of cur[t].lvl while the thread is in no log macro
NoLevel == "-"

\* threads a signal can be delivered to
Threads == Producers \cup {"worker", "main"}

\* FILE* values: the three standard streams and one stream opened by the
\* application; NullFd is the nullptr argument of CloseFileDesc
StdStreams == {"stdin", "stdout", "stderr"}
Streams == StdStreams \cup {"file1"}
NullFd == "nullptr"

\* Text is a sequence of symbols.  "%" opens a placeholder and the symbol
\* after it names it: <<"%","L">> stands for %(LEVEL), <<"%","M">> for
\* %(MSG), <<"%","P">> for %(PID); "%" followed by anything else is a
\* placeholder that is not recognized; "a" is any other character.
Sym == {"%", "L", "M", "P", "a"}
Token(k) == <<"%", k>>
\* the text of log_data->level and of std::to_string(log_data->pid)
LevelText == <<"i">>
PidText == <<"7">>

\* format templates the application sets; the first is the constructor's
\* "[%(LEVEL)] %(FILENAME): %(LINE): %(MSG)" reduced to the symbols above
DefaultFormat == <<"%", "L", "%", "M">>
Formats == {DefaultFormat, <<"%", "M">>}

\* ------------------------------------------------------------ level values
\* Numeric value of the LogLevel enumerators (yeti/yeti.h, not part of the
\* sources at hand).  The macros dispatch when GetLogLevel() >= LOG_LEVEL_X,
\* and a record is to be dispatched when its level is at or above the
\* configured minimum, so the enumerators count verbosity: CRITICAL lowest.
LogLevelValue(l) ==
    CASE l = "CRT" -> 0
      [] l = "ERR" -> 1
      [] l = "WRN" -> 2
      [] l = "INF" -> 3
      [] l = "DBG" -> 4
      [] l = "TRC" -> 5

VARIABLES
    queue_,            \* Logger::queue_ (FIFO of tasks)
    exec_list_,        \* Logger::exec_list_
    queue_mutex_,      \* "free" or the thread holding it across actions
    exec_list_mutex_,  \* "free" or the thread holding it across actions
    stop_loop_,        \* Logger::stop_loop_
    level_,            \* Logger::level_ (a level tag; compared by value)
    msg_id_,           \* Logger::msg_id_
    joinable,          \* thread_.joinable()
    wpc,               \* position of the worker in ProcessingLoop
    pc,                \* position of each producer inside a log macro
    cur,               \* locals of each producer's log macro
    ncalls,            \* calls issued by the producers so far
    mpc,               \* position of the control thread
    mop,               \* control thread's bookkeeping of its calls
    enq_order,         \* history: tasks in the order they were pushed
    executed,          \* history: tasks in the order they were run
    discarded,         \* history: tasks popped from the execution list
    format_str_,       \* Logger::format_str_
    fd_,               \* Logger::fd_
    is_colored_,       \* Logger::is_colored_
    data,              \* each producer's LogData fields set by _EnqueueLogTask
    ncfg,              \* configuration calls issued by the control thread
    out,               \* history: effects of the tasks run (writes, closes)
    snap,              \* history: settings read when a record was stamped
    close_req,         \* history: the CloseFileDesc calls, in call order
    sig,               \* the signal handler in progress, if any
    log_format,        \* _CreateLogStr: log_data->log_format
    msg,               \* _CreateLogStr: log_data->msg
    result,            \* _CreateLogStr: result
    subs,              \* _CreateLogStr: entries of subs still to be visited
    fpc,               \* _CreateLogStr: position
    nrep               \* _CreateLogStr: replacements made so far

vars == <<queue_, exec_list_, queue_mutex_, exec_list_mutex_, stop_loop_,
          level_, msg_id_, joinable, wpc, pc, cur, ncalls, mpc, mop,
          enq_order, executed, discarded, format_str_, fd_, is_colored_,
          data, ncfg, out, snap, close_req, sig, log_format, msg, result,
          subs, fpc, nrep>>

pipeVars == <<queue_, exec_list_, queue_mutex_, exec_list_mutex_, wpc,
              enq_order, executed, discarded>>
prodVars == <<pc, cur, ncalls, msg_id_>>
ctrlVars == <<mpc, mop, stop_loop_, joinable, level_>>
setVars == <<format_str_, fd_, is_colored_, ncfg, close_req>>
cfgVars == <<setVars, data, snap>>
fmtVars == <<log_format, msg, result, subs, fpc, nrep>>
\* what the delivery pipeline and the macros' id and level steps leave alone
extVars == <<cfgVars, sig, fmtVars>>

\* ---------------------------------------------------------------- helpers
\* cv_.notify_one(): the worker is the only thread that ever waits on cv_;
\* a notification with no waiter is lost.
NotifyOne(w) == IF w = "waiting" THEN "woken" ELSE w

\* predicate of cv_.wait in ProcessingLoop
WaitPred(q, stop) == q # <<>> \/ stop

\* one iteration of the drain loop: exec_list_.push_back(queue_.front());
\* queue_.pop();   (both under queue_mutex_ and exec_list_mutex_)
DrainOne_keep(q, e) == [q |-> q, e |-> Append(e, Head(q))]
DrainOne_front(q, e) == [q |-> Tail(q), e |-> <<Head(q)>> \o e]
DrainOne(q, e) == [q |-> Tail(q), e |-> Append(e, Head(q))]

\* loop condition of ProcessingLoop, second operand: the worker goes on
\* when the queue is not empty
LoopAgain_never(qempty) == FALSE
LoopAgain(qempty) == ~qempty

\* Logger::GetMsgId / Logger::IncMsgId (src/logger.h, not part of the sources
\* at hand): the counter is read without locking and incremented atomically
GetMsgId(c) == c
IncMsgId(c) == c + 1

\* yeti::_GetMsgId / yeti::_IncMsgId
_GetMsgId(c) == GetMsgId(c)
_IncMsgId_skip(c) == c
_IncMsgId(c) == IncMsgId(c)

\* yeti::GetLogLevel(): the configured level as an int
GetLogLevel(lv) == LogLevelValue(lv)

\* the guard of the macros ERR, WRN, INF, DBG, TRC (CRT has none):
\* if (yeti::GetLogLevel() >= yeti::LOG_LEVEL_X)
MacroGuard_strict(l, lv) == GetLogLevel(lv) > LogLevelValue(l)
MacroGuard(l, lv) == GetLogLevel(lv) >= LogLevelValue(l)

\* Flush(): } while (!IsQueueEmpty() || !IsExecListEmpty());  where control
\* goes after IsQueueEmpty(): round again, or on to IsExecListEmpty()
FlushNext_queueOnly(qempty) == IF qempty THEN "f_ret" ELSE "f_notify"
FlushNext(qempty) == IF qempty THEN "f_ise" ELSE "f_notify"

\* Shutdown(): if (thread_.joinable()) thread_.join();
ShouldJoin_always(j) == TRUE
ShouldJoin(j) == j

\* Logger::GetFileDesc / Logger::IsColored (src/logger.h, not part of the
\* sources at hand): the getters of fd_ and is_colored_
GetFileDesc(d) == d
IsColored(c) == c

\* ProcessingLoop: queue_lock.unlock(); before the execution loop
Unlock_skip(m) == m
Unlock(m) == "free"

\* CloseFileDesc: if (fd == nullptr) fd = fd_;
CloseTarget(fd, cur_fd) == IF fd = NullFd THEN cur_fd ELSE fd

\* CloseFileDesc: if (fd != stderr && fd != stdout && fd != stdin)
NeedsCloseTask_all(fd) == TRUE
NeedsCloseTask(fd) == fd # "stderr" /\ fd # "stdout" /\ fd # "stdin"

\* what kind of closure a task is: the print_func of _EnqueueLogTask, the
\* close_func of CloseFileDesc, or a function handed to EnqueueTask directly
Kind(task) == IF "kind" \in DOMAIN task THEN task.kind ELSE "call"

\* isatty(fileno(fd)): the standard streams are taken to be a terminal, a
\* stream opened by the application to be a file
IsATty(fd) == fd \in StdStreams

\* print_func: the record rendered with log_data->log_format, colored when
\* the captured is_colored is set and log_data->fd is a terminal, written to
\* log_data->fd.  f, d, c are the logger's settings at the time of the run.
PrintFunc_live(task, f, d, c) ==
    [op |-> "write", id |-> <<task.tid, task.seq>>, log_format |-> f,
     fd |-> d, colored |-> c /\ IsATty(d)]
PrintFunc(task, f, d, c) ==
    [op |-> "write", id |-> <<task.tid, task.seq>>,
     log_format |-> task.log_format, fd |-> task.fd,
     colored |-> task.is_colored /\ IsATty(task.fd)]

\* close_func: std::fclose(fd)
CloseFunc(task) ==
    [op |-> "close", id |-> <<task.tid, task.seq>>, log_format |-> <<>>,
     fd |-> task.fd, colored |-> FALSE]

\* exec_list_.front()(): the effects so far followed by the task's effect
RunTask(task, o, f, d, c) ==
    CASE Kind(task) = "print" -> Append(o, PrintFunc(task, f, d, c))
      [] Kind(task) = "close" -> Append(o, CloseFunc(task))
      [] OTHER -> o

\* ------------------------------------------------- _CreateLogStr helpers
\* texts of at most n symbols
Strings(n) == UNION {[1..k -> Sym] : k \in 0..n}

\* whether key is in s at position i
MatchAt(s, i, key) ==
    /\ i + Len(key) - 1 <= Len(s)
    /\ SubSeq(s, i, i + Len(key) - 1) = key

\* std::string::find(key): the first position of key in s, searched from
\* the start; 0 stands for npos
Find_loose(s, key) ==
    IF \E i \in 1..Len(s) : s[i] = key[1]
      THEN CHOOSE i \in 1..Len(s) :
               /\ s[i] = key[1]
               /\ \A j \in 1..(i - 1) : s[j] # key[1]
      ELSE 0
Find(s, key) ==
    IF \E i \in 1..Len(s) : MatchAt(s, i, key)
      THEN CHOOSE i \in 1..Len(s) :
               /\ MatchAt(s, i, key)
               /\ \A j \in 1..(i - 1) : ~MatchAt(s, j, key)
      ELSE 0

\* std::string::replace(pos, n, val)
Replace(s, pos, n, val) ==
    SubSeq(s, 1, pos - 1) \o val \o SubSeq(s, pos + n, Len(s))

\* The entries of subs in the order the range-for visits them, which is the
\* key order of std::map<std::string, std::string>: "%(LEVEL)" < "%(MSG)" <
\* "%(PID)".  LEVEL and MSG are always entered (as are FILENAME and FUNCNAME,
\* which behave as LEVEL does); PID only if the template contains it (as for
\* TID, DATE, TIME, LINE, MSG_ID).
SubsOf(fmt, m) ==
    <<[key |-> Token("L"), val |-> LevelText],
      [key |-> Token("M"), val |-> m]>>
    \o (IF Find(fmt, Token("P")) # 0
          THEN <<[key |-> Token("P"), val |-> PidText]>>
          ELSE <<>>)

\* ------------------------------------------------------------------- Init
\* Logger::Logger(): empty containers, stop_loop_ false, msg_id_ 0, the
\* worker thread started; with YETI_LOG_LEVEL unset LogLevelFromEnv returns
\* LOG_LEVEL_INFO (every other level is reached by SetLogLevel); is_colored_
\* true, format_str_ the default template, fd_ stderr.  No record has been
\* stamped, no task run, no signal delivered.
LoggerInit ==
    /\ queue_ = <<>>
    /\ exec_list_ = <<>>
    /\ queue_mutex_ = "free"
    /\ exec_list_mutex_ = "free"
    /\ stop_loop_ = FALSE
    /\ level_ = "INF"
    /\ msg_id_ = 0
    /\ joinable = TRUE
    /\ wpc = "lock"
    /\ pc = [t \in Producers |-> "idle"]
    /\ cur = [t \in Producers |-> [lvl |-> NoLevel, id |-> NoId, seq |-> 0]]
    /\ ncalls = 0
    /\ mpc = "idle"
    /\ mop = [nflush |-> 0, nshut |-> 0, nset |-> 0, mark |-> 0,
              flushed |-> -1, drained |-> -1]
    /\ enq_order = <<>>
    /\ executed = <<>>
    /\ discarded = {}
    /\ format_str_ = DefaultFormat
    /\ fd_ = "stderr"
    /\ is_colored_ = TRUE
    /\ data = [t \in Producers |->
                 [log_format |-> <<>>, fd |-> NullFd, is_colored |-> FALSE]]
    /\ ncfg = 0
    /\ out = <<>>
    /\ snap = {}
    /\ close_req = <<>>
    /\ sig = [thr |-> "none", hpc |-> "none", old |-> FALSE, id |-> NoId,
              n |-> 0, flushes |-> 0, chained |-> 0]

\* _CreateLogStr is not being run
FmtIdle ==
    /\ log_format = <<>>
    /\ msg = <<>>
    /\ result = <<>>
    /\ subs = <<>>
    /\ fpc = "idle"
    /\ nrep = 0

\* _CreateLogStr(log_data) has been called with template f and message m
FmtCalled(f, m) ==
    /\ log_format = f
    /\ msg = m
    /\ result = <<>>
    /\ subs = <<>>
    /\ fpc = "call"
    /\ nrep = 0

Init == LoggerInit /\ FmtIdle

\* the format engine on its own: a call with any template and any message
FmtInit ==
    /\ LoggerInit
    /\ \E f \in Strings(MaxTmplLen) : \E m \in Strings(MaxMsgLen) :
           FmtCalled(f, m)

\* ------------------------------------------------- worker: ProcessingLoop
\* std::unique_lock<std::mutex> queue_lock(queue_mutex_);
W_Lock ==
    /\ wpc = "lock"
    /\ queue_mutex_ = "free"
    /\ queue_mutex_' = "worker"
    /\ wpc' = "pred"
    /\ UNCHANGED <<queue_, exec_list_, exec_list_mutex_, enq_order, executed,
                   discarded, prodVars, ctrlVars>>
    /\ UNCHANGED <<out, extVars>>

\* cv_.wait(queue_lock, pred): the predicate is evaluated with the mutex held
W_Pred ==
    /\ wpc = "pred"
    /\ wpc' = IF WaitPred(queue_, stop_loop_) THEN "exec_lock" ELSE "prewait"
    /\ UNCHANGED <<queue_, exec_list_, queue_mutex_, exec_list_mutex_,
                   enq_order, executed, discarded, prodVars, ctrlVars>>
    /\ UNCHANGED <<out, extVars>>

\* cv_.wait: the predicate was false; release the mutex and block, atomically
W_Wait ==
    /\ wpc = "prewait"
    /\ queue_mutex_' = "free"
    /\ wpc' = "waiting"
    /\ UNCHANGED <<queue_, exec_list_, exec_list_mutex_, enq_order, executed,
                   discarded, prodVars, ctrlVars>>
    /\ UNCHANGED <<out, extVars>>

\* a condition variable may wake up without a notification
W_Spurious ==
    /\ wpc = "waiting"
    /\ wpc' = "woken"
    /\ UNCHANGED <<queue_, exec_list_, queue_mutex_, exec_list_mutex_,
                   enq_order, executed, discarded, prodVars, ctrlVars>>
    /\ UNCHANGED <<out, extVars>>

\* cv_.wait: woken up, take the mutex again and evaluate the predicate again
W_Reacquire ==
    /\ wpc = "woken"
    /\ queue_mutex_ = "free"
    /\ queue_mutex_' = "worker"
    /\ wpc' = "pred"
    /\ UNCHANGED <<queue_, exec_list_, exec_list_mutex_, enq_order, executed,
                   discarded, prodVars, ctrlVars>>
    /\ UNCHANGED <<out, extVars>>

\* std::lock_guard<std::mutex> exec_lock(exec_list_mutex_);
W_ExecLock ==
    /\ wpc = "exec_lock"
    /\ exec_list_mutex_ = "free"
    /\ exec_list_mutex_' = "worker"
    /\ wpc' = "drain"
    /\ UNCHANGED <<queue_, exec_list_, queue_mutex_, enq_order, executed,
                   discarded, prodVars, ctrlVars>>
    /\ UNCHANGED <<out, extVars>>

\* while (!queue_.empty()) { push_back(front); pop; }  queue_lock.unlock();
W_Drain ==
    /\ wpc = "drain"
    /\ IF queue_ # <<>>
         THEN /\ queue_' = DrainOne(queue_, exec_list_).q
              /\ exec_list_' = DrainOne(queue_, exec_list_).e
              /\ UNCHANGED <<queue_mutex_, wpc>>
         ELSE /\ queue_mutex_' = Unlock(queue_mutex_)
              /\ wpc' = "exec"
              /\ UNCHANGED <<queue_, exec_list_>>
    /\ UNCHANGED <<exec_list_mutex_, enq_order, executed, discarded,
                   prodVars, ctrlVars>>
    /\ UNCHANGED <<out, extVars>>

\* while (!exec_list_.empty()) { exec_list_.front()(); ...
\* at the end of the loop body exec_lock goes out of scope
W_Exec ==
    /\ wpc = "exec"
    /\ IF exec_list_ # <<>>
         THEN /\ executed' = Append(executed, Head(exec_list_))
              /\ out' = RunTask(Head(exec_list_), out, format_str_, fd_,
                                is_colored_)
              /\ wpc' = "pop"
              /\ UNCHANGED exec_list_mutex_
         ELSE /\ exec_list_mutex_' = "free"
              /\ wpc' = "cond"
              /\ UNCHANGED <<executed, out>>
    /\ UNCHANGED <<queue_, exec_list_, queue_mutex_, enq_order, discarded,
                   prodVars, ctrlVars, extVars>>

\* ... exec_list_.pop_front(); }
W_Pop ==
    /\ wpc = "pop"
    /\ discarded' = discarded \cup {Head(exec_list_)}
    /\ exec_list_' = Tail(exec_list_)
    /\ wpc' = "exec"
    /\ UNCHANGED <<queue_, queue_mutex_, exec_list_mutex_, enq_order,
                   executed, prodVars, ctrlVars>>
    /\ UNCHANGED <<out, extVars>>

\* } while (!stop_loop_ || ...): first operand
W_Cond ==
    /\ wpc = "cond"
    /\ wpc' = IF ~stop_loop_ THEN "lock" ELSE "isqempty"
    /\ UNCHANGED <<queue_, exec_list_, queue_mutex_, exec_list_mutex_,
                   enq_order, executed, discarded, prodVars, ctrlVars>>
    /\ UNCHANGED <<out, extVars>>

\* } while (... || !IsQueueEmpty()): second operand, under queue_mutex_
W_IsQueueEmpty ==
    /\ wpc = "isqempty"
    /\ queue_mutex_ = "free"
    /\ wpc' = IF LoopAgain(queue_ = <<>>) THEN "lock" ELSE "exiting"
    /\ UNCHANGED <<queue_, exec_list_, queue_mutex_, exec_list_mutex_,
                   enq_order, executed, discarded, prodVars, ctrlVars>>
    /\ UNCHANGED <<out, extVars>>

\* ProcessingLoop returns: the thread function is over
W_Return ==
    /\ wpc = "exiting"
    /\ wpc' = "terminated"
    /\ UNCHANGED <<queue_, exec_list_, queue_mutex_, exec_list_mutex_,
                   enq_order, executed, discarded, prodVars, ctrlVars>>
    /\ UNCHANGED <<out, extVars>>

Worker ==
    \/ W_Lock \/ W_Pred \/ W_Wait \/ W_Reacquire \/ W_ExecLock \/ W_Drain
    \/ W_Exec \/ W_Pop \/ W_Cond \/ W_IsQueueEmpty \/ W_Return

\* the worker's steps as long as Shutdown() has not been called
WorkerRun ==
    \/ W_Lock \/ W_Pred \/ W_Wait \/ W_Reacquire \/ W_ExecLock \/ W_Drain
    \/ W_Exec \/ W_Pop \/ W_Cond

\* ------------------------------------------------ producers: EnqueueTask
\* Logger::EnqueueTask(task): lock queue_mutex_, queue_.push(task),
\* cv_.notify_one(), unlock
EnqueueTask(task) ==
    /\ queue_mutex_ = "free"
    /\ queue_' = Append(queue_, task)
    /\ enq_order' = Append(enq_order, task)
    /\ wpc' = NotifyOne(wpc)
    /\ UNCHANGED <<exec_list_, queue_mutex_, exec_list_mutex_, executed,
                   discarded>>

\* a producer thread hands a task of its own to Logger::EnqueueTask
Produce(t) ==
    /\ pc[t] = "idle"
    /\ ncalls < MaxCalls
    /\ ncalls' = ncalls + 1
    /\ cur' = [cur EXCEPT ![t].seq = @ + 1]
    /\ EnqueueTask([tid |-> t, seq |-> cur[t].seq + 1, msg_id |-> NoId])
    /\ UNCHANGED <<pc, msg_id_, ctrlVars>>
    /\ UNCHANGED <<out, extVars>>

\* --------------------------------------------------- producers: log macros
\* ERR/WRN/INF/DBG/TRC: std::size_t __yeti_msg_id__ = yeti::_GetMsgId();
\* CRT: __yeti_data__->msg_id = yeti::_GetMsgId();
LogGetId(t, l) ==
    /\ pc[t] = "idle"
    /\ ncalls < MaxLogCalls
    /\ ncalls' = ncalls + 1
    /\ cur' = [cur EXCEPT ![t] = [lvl |-> l, id |-> _GetMsgId(msg_id_),
                                  seq |-> cur[t].seq + 1]]
    /\ pc' = [pc EXCEPT ![t] = "incid"]
    /\ UNCHANGED <<msg_id_, pipeVars, ctrlVars>>
    /\ UNCHANGED <<out, extVars>>

\* yeti::_IncMsgId();
LogIncId(t) ==
    /\ pc[t] = "incid"
    /\ msg_id_' = _IncMsgId(msg_id_)
    /\ pc' = [pc EXCEPT ![t] = IF cur[t].lvl = "CRT" THEN "enqueue" ELSE "guard"]
    /\ UNCHANGED <<cur, ncalls, pipeVars, ctrlVars>>
    /\ UNCHANGED <<out, extVars>>

\* if (yeti::GetLogLevel() >= yeti::LOG_LEVEL_X) { ... }
LogGuard(t) ==
    /\ pc[t] = "guard"
    /\ IF MacroGuard(cur[t].lvl, level_)
         THEN /\ pc' = [pc EXCEPT ![t] = "enqueue"]
              /\ UNCHANGED cur
         ELSE /\ pc' = [pc EXCEPT ![t] = "idle"]
              /\ cur' = [cur EXCEPT ![t].lvl = NoLevel]
    /\ UNCHANGED <<ncalls, msg_id_, pipeVars, ctrlVars>>
    /\ UNCHANGED <<out, extVars>>

\* yeti::_EnqueueLogTask(data): Logger::EnqueueTask(print_func)
LogEnqueue(t) ==
    /\ pc[t] = "enqueue"
    /\ EnqueueTask([tid |-> t, seq |-> cur[t].seq, msg_id |-> cur[t].id])
    /\ pc' = [pc EXCEPT ![t] = "idle"]
    /\ cur' = [cur EXCEPT ![t].lvl = NoLevel]
    /\ UNCHANGED <<ncalls, msg_id_, ctrlVars>>
    /\ UNCHANGED <<out, extVars>>

LogCall(t) == \E l \in Levels : LogGetId(t, l)

LogStep(t) == LogIncId(t) \/ LogGuard(t) \/ LogEnqueue(t)

\* ------------------------------------------------------- control thread
\* mop.mark: number of tasks pushed when the call in progress began;
\* mop.flushed: mark of the last Flush() that returned; mop.drained: mark of
\* the Shutdown() that joined the worker (-1: none yet).

\* yeti::SetLogLevel(level) -> Logger::SetLevel
SetLogLevel(l) ==
    /\ mpc = "idle"
    /\ mop.nset < MaxSetLevel
    /\ level_' = l
    /\ mop' = [mop EXCEPT !.nset = @ + 1]
    /\ UNCHANGED <<mpc, stop_loop_, joinable, pipeVars, prodVars>>
    /\ UNCHANGED <<out, extVars>>

\* yeti::FlushLog() -> Logger::Flush() is entered
FlushCall ==
    /\ mpc = "idle"
    /\ mop.nflush < MaxFlush
    /\ mop' = [mop EXCEPT !.nflush = @ + 1, !.mark = Len(enq_order)]
    /\ mpc' = "f_notify"
    /\ UNCHANGED <<stop_loop_, joinable, level_, pipeVars, prodVars>>
    /\ UNCHANGED <<out, extVars>>

\* do { cv_.notify_one();
F_Notify ==
    /\ mpc = "f_notify"
    /\ wpc' = NotifyOne(wpc)
    /\ mpc' = "f_isq"
    /\ UNCHANGED <<mop, stop_loop_, joinable, level_, queue_, exec_list_,
                   queue_mutex_, exec_list_mutex_, enq_order, executed,
                   discarded, prodVars>>
    /\ UNCHANGED <<out, extVars>>

\* } while (!IsQueueEmpty() ...     (IsQueueEmpty locks queue_mutex_)
F_IsQueueEmpty ==
    /\ mpc = "f_isq"
    /\ queue_mutex_ = "free"
    /\ mpc' = FlushNext(queue_ = <<>>)
    /\ UNCHANGED <<mop, stop_loop_, joinable, level_, pipeVars, prodVars>>
    /\ UNCHANGED <<out, extVars>>

\* ... || !IsExecListEmpty());      (IsExecListEmpty locks exec_list_mutex_)
F_IsExecListEmpty ==
    /\ mpc = "f_ise"
    /\ exec_list_mutex_ = "free"
    /\ mpc' = IF exec_list_ = <<>> THEN "f_ret" ELSE "f_notify"
    /\ UNCHANGED <<mop, stop_loop_, joinable, level_, pipeVars, prodVars>>
    /\ UNCHANGED <<out, extVars>>

\* Flush() returns
F_Return ==
    /\ mpc = "f_ret"
    /\ mpc' = "idle"
    /\ mop' = [mop EXCEPT !.flushed = mop.mark]
    /\ UNCHANGED <<stop_loop_, joinable, level_, pipeVars, prodVars>>
    /\ UNCHANGED <<out, extVars>>

\* yeti::ShutdownLog() -> Logger::Shutdown():  stop_loop_ = true;
ShutdownCall ==
    /\ mpc = "idle"
    /\ mop.nshut < MaxShutdown
    /\ mop' = [mop EXCEPT !.nshut = @ + 1, !.mark = Len(enq_order)]
    /\ stop_loop_' = TRUE
    /\ mpc' = "s_notify"
    /\ UNCHANGED <<joinable, level_, pipeVars, prodVars>>
    /\ UNCHANGED <<out, extVars>>

\* cv_.notify_one();
S_Notify ==
    /\ mpc = "s_notify"
    /\ wpc' = NotifyOne(wpc)
    /\ mpc' = "s_joinable"
    /\ UNCHANGED <<mop, stop_loop_, joinable, level_, queue_, exec_list_,
                   queue_mutex_, exec_list_mutex_, enq_order, executed,
                   discarded, prodVars>>
    /\ UNCHANGED <<out, extVars>>

\* if (thread_.joinable()) ...   else Shutdown() returns
S_Joinable ==
    /\ mpc = "s_joinable"
    /\ mpc' = IF ShouldJoin(joinable) THEN "s_join" ELSE "idle"
    /\ UNCHANGED <<mop, stop_loop_, joinable, level_, pipeVars, prodVars>>
    /\ UNCHANGED <<out, extVars>>

\* thread_.join(): blocks until the thread function has returned, then
\* Shutdown() returns; join() of a thread that is not joinable throws
\* std::system_error
S_Join ==
    /\ mpc = "s_join"
    /\ IF joinable
         THEN /\ wpc = "terminated"
              /\ joinable' = FALSE
              /\ mop' = [mop EXCEPT !.drained = mop.mark]
              /\ mpc' = "idle"
         ELSE /\ mpc' = "fault"
              /\ UNCHANGED <<joinable, mop>>
    /\ UNCHANGED <<stop_loop_, level_, pipeVars, prodVars>>
    /\ UNCHANGED <<out, extVars>>

ControlCall == FlushCall \/ ShutdownCall

ControlStep ==
    \/ F_Notify \/ F_IsQueueEmpty \/ F_IsExecListEmpty \/ F_Return
    \/ S_Notify \/ S_Joinable \/ S_Join

\* ------------------------------------------------------------------- Next
\* The delivery pipeline: producers calling EnqueueTask, the control thread
\* calling Flush and Shutdown, the worker.
Next ==
    \/ Worker
    \/ W_Spurious
    \/ \E t \in Producers : Produce(t)
    \/ ControlCall
    \/ ControlStep

Spec == Init /\ [][Next]_vars

\* Scheduling: a thread that can take its next step eventually takes it.
\* Nothing obliges a thread to begin a new call, nor the condition variable
\* to wake up spuriously.
FairSpec ==
    /\ Spec
    /\ WF_vars(Worker)
    /\ WF_vars(ControlStep)

\* Scheduling for a caller that waits for mutexes the worker keeps taking
\* and releasing: the worker eventually takes a step it can take, the
\* control thread eventually takes a step that is possible again and again.
FlushFairSpec ==
    /\ Spec
    /\ WF_vars(Worker)
    /\ SF_vars(ControlStep)

\* The call side of the logger: producers running CRT/ERR/WRN/INF/DBG/TRC
\* while the control thread changes the level.  What a macro reads and
\* writes (msg_id_, level_, the tail of queue_) is untouched by the worker,
\* whose steps are those of Next.
LogNext ==
    \/ \E t \in Producers : LogCall(t)
    \/ \E t \in Producers : LogStep(t)
    \/ \E l \in Levels : SetLogLevel(l)

LogSpec == Init /\ [][LogNext]_vars

\* ------------------------------------------------ settings and streams
\* The identity of the record a producer is stamping
RecId(t) == <<t, cur[t].seq>>

\* _EnqueueLogTask: log_data->log_format = Logger::instance().GetFormatStr();
E_GetFormatStr(t) ==
    /\ pc[t] = "enqueue"
    /\ data' = [data EXCEPT ![t].log_format = format_str_]
    /\ snap' = snap \cup {<<RecId(t), "log_format", format_str_>>}
    /\ pc' = [pc EXCEPT ![t] = "e_fd"]
    /\ UNCHANGED <<cur, ncalls, msg_id_, pipeVars, ctrlVars, setVars, out,
                   sig, fmtVars>>

\* _EnqueueLogTask: log_data->fd = Logger::instance().GetFileDesc();
E_GetFileDesc(t) ==
    /\ pc[t] = "e_fd"
    /\ data' = [data EXCEPT ![t].fd = GetFileDesc(fd_)]
    /\ snap' = snap \cup {<<RecId(t), "fd", fd_>>,
                          <<RecId(t), "closes", Len(close_req)>>}
    /\ pc' = [pc EXCEPT ![t] = "e_colored"]
    /\ UNCHANGED <<cur, ncalls, msg_id_, pipeVars, ctrlVars, setVars, out,
                   sig, fmtVars>>

\* _EnqueueLogTask: bool is_colored = Logger::instance().IsColored();
E_IsColored(t) ==
    /\ pc[t] = "e_colored"
    /\ data' = [data EXCEPT ![t].is_colored = IsColored(is_colored_)]
    /\ snap' = snap \cup {<<RecId(t), "is_colored", is_colored_>>}
    /\ pc' = [pc EXCEPT ![t] = "e_enqueue"]
    /\ UNCHANGED <<cur, ncalls, msg_id_, pipeVars, ctrlVars, setVars, out,
                   sig, fmtVars>>

\* _EnqueueLogTask: auto print_func = [log_data, is_colored] {...};
\* Logger::instance().EnqueueTask(print_func);
E_Enqueue(t) ==
    /\ pc[t] = "e_enqueue"
    /\ EnqueueTask([tid |-> t, seq |-> cur[t].seq, msg_id |-> cur[t].id,
                    kind |-> "print", log_format |-> data[t].log_format,
                    fd |-> data[t].fd, is_colored |-> data[t].is_colored])
    /\ pc' = [pc EXCEPT ![t] = "idle"]
    /\ cur' = [cur EXCEPT ![t].lvl = NoLevel]
    /\ UNCHANGED <<ncalls, msg_id_, ctrlVars, cfgVars, out, sig, fmtVars>>

\* Logger::CloseFileDesc(fd), called by the control thread as its call
\* number ncfg + 1.  close_req records the stream the call is about.
CloseFileDesc(fd) ==
    LET target == CloseTarget(fd, fd_) IN
    /\ close_req' = Append(close_req, [fd |-> target, seq |-> ncfg + 1])
    /\ IF NeedsCloseTask(target)
         THEN EnqueueTask([tid |-> "main", seq |-> ncfg + 1, msg_id |-> NoId,
                           kind |-> "close", log_format |-> <<>>,
                           fd |-> target, is_colored |-> FALSE])
         ELSE UNCHANGED pipeVars

\* yeti::CloseLogFileDesc(fd) -> Logger::CloseFileDesc
CloseLogFileDesc(fd) ==
    /\ mpc = "idle"
    /\ ncfg < MaxCfgCalls
    /\ ncfg' = ncfg + 1
    /\ CloseFileDesc(fd)
    /\ UNCHANGED <<format_str_, fd_, is_colored_, data, snap, prodVars,
                   ctrlVars, out, sig, fmtVars>>

\* yeti::SetLogFileDesc(fd) -> Logger::SetFileDesc (src/logger.h, not part of
\* the sources at hand): the setter of fd_; closing the stream that was set
\* before is the application's call of CloseLogFileDesc
SetLogFileDesc(fd) ==
    /\ mpc = "idle"
    /\ ncfg < MaxCfgCalls
    /\ ncfg' = ncfg + 1
    /\ fd_' = fd
    /\ UNCHANGED <<format_str_, is_colored_, close_req, data, snap, pipeVars,
                   prodVars, ctrlVars, out, sig, fmtVars>>

\* yeti::SetLogFormatStr(format_str) -> Logger::SetFormatStr
SetLogFormatStr(f) ==
    /\ mpc = "idle"
    /\ ncfg < MaxCfgCalls
    /\ ncfg' = ncfg + 1
    /\ format_str_' = f
    /\ UNCHANGED <<fd_, is_colored_, close_req, data, snap, pipeVars,
                   prodVars, ctrlVars, out, sig, fmtVars>>

\* yeti::SetLogColored(is_colored) -> Logger::SetColored (src/logger.h, not
\* part of the sources at hand): the setter of is_colored_
SetLogColored(c) ==
    /\ mpc = "idle"
    /\ ncfg < MaxCfgCalls
    /\ ncfg' = ncfg + 1
    /\ is_colored_' = c
    /\ UNCHANGED <<format_str_, fd_, close_req, data, snap, pipeVars,
                   prodVars, ctrlVars, out, sig, fmtVars>>

\* CRT(...) up to its call of _EnqueueLogTask (the macro without a guard)
CfgLogCall(t) == ncalls < MaxCfgLogCalls /\ LogGetId(t, "CRT")

\* _EnqueueLogTask, statement by statement
E_Step(t) ==
    \/ E_GetFormatStr(t) \/ E_GetFileDesc(t) \/ E_IsColored(t)
    \/ E_Enqueue(t)

\* Producers logging with CRT while the control thread changes the format
\* template, the color flag and the output stream and closes streams; the
\* worker runs the print and close tasks.
CfgNext ==
    \/ \E t \in Producers : CfgLogCall(t)
    \/ \E t \in Producers : LogIncId(t)
    \/ \E t \in Producers : E_Step(t)
    \/ \E f \in Formats : SetLogFormatStr(f)
    \/ \E c \in BOOLEAN : SetLogColored(c)
    \/ \E fd \in Streams : SetLogFileDesc(fd)
    \/ \E fd \in Streams \cup {NullFd} : CloseLogFileDesc(fd)
    \/ WorkerRun
    \/ W_Spurious

CfgSpec == Init /\ [][CfgNext]_vars

\* --------------------------------------------------------- _CreateLogStr
\* what _CreateLogStr leaves alone
loggerVars == <<pipeVars, prodVars, ctrlVars, cfgVars, out, sig>>

\* subs is filled (the map's entries in key order);
\* std::string result = log_data->log_format;
Fmt_Build ==
    /\ fpc = "call"
    /\ subs' = SubsOf(log_format, msg)
    /\ result' = log_format
    /\ fpc' = "loop"
    /\ UNCHANGED <<log_format, msg, nrep, loggerVars>>

\* while ((pos = result.find(entry.first)) != npos)
\*   result.replace(pos, entry.first.length(), entry.second);
Fmt_Replace ==
    /\ fpc = "loop"
    /\ subs # <<>>
    /\ Find(result, Head(subs).key) # 0
    /\ nrep < MaxRep
    /\ result' = Replace(result, Find(result, Head(subs).key),
                         Len(Head(subs).key), Head(subs).val)
    /\ nrep' = nrep + 1
    /\ UNCHANGED <<log_format, msg, subs, fpc, loggerVars>>

\* find returned npos: the range-for goes to the next entry of subs
Fmt_NextEntry ==
    /\ fpc = "loop"
    /\ subs # <<>>
    /\ Find(result, Head(subs).key) = 0
    /\ subs' = Tail(subs)
    /\ UNCHANGED <<log_format, msg, result, fpc, nrep, loggerVars>>

\* return result;
Fmt_Return ==
    /\ fpc = "loop"
    /\ subs = <<>>
    /\ fpc' = "done"
    /\ UNCHANGED <<log_format, msg, result, subs, nrep, loggerVars>>

FmtNext == Fmt_Build \/ Fmt_Replace \/ Fmt_NextEntry \/ Fmt_Return

FmtSpec == FmtInit /\ [][FmtNext]_vars

\* ------------------------------------------------------- signal handler
\* SimpleSignalHandler runs on the stack of the thread the signal is
\* delivered to; that thread goes on only when the handler has returned.
\* sig.thr: the interrupted thread; sig.hpc: the handler's position;
\* sig.old: whether g_old_handlers[sig_num] holds a handler; sig.id: the
\* DEBUG macro's __yeti_msg_id__; sig.flushes / sig.chained: how often the
\* handler's Flush() has returned / the previous handler has been invoked.

\* everything but sig, msg_id_ and the variables EnqueueTask and notify_one
\* write
sigFrame == <<exec_list_, queue_mutex_, exec_list_mutex_, executed, discarded,
              pc, cur, ncalls, ctrlVars, cfgVars, out, fmtVars>>

\* one of SIGABRT, SIGFPE, SIGILL, SIGINT, SIGSEGV, SIGTERM is delivered to
\* thread t; the six differ only in whether a previous handler was recorded
SignalDeliver(t, old) ==
    /\ sig.thr = "none"
    /\ sig.n < MaxSignals
    /\ t = "worker" => wpc # "terminated"
    /\ sig' = [sig EXCEPT !.thr = t, !.hpc = "h_getid", !.old = old,
                          !.n = @ + 1]
    /\ UNCHANGED <<queue_, enq_order, wpc, msg_id_, sigFrame>>

\* DEBUG(...): std::size_t __yeti_msg_id__ = yeti::_GetMsgId();
H_GetId ==
    /\ sig.hpc = "h_getid"
    /\ sig' = [sig EXCEPT !.id = _GetMsgId(msg_id_), !.hpc = "h_incid"]
    /\ UNCHANGED <<queue_, enq_order, wpc, msg_id_, sigFrame>>

\* DEBUG(...): yeti::_IncMsgId();
H_IncId ==
    /\ sig.hpc = "h_incid"
    /\ msg_id_' = _IncMsgId(msg_id_)
    /\ sig' = [sig EXCEPT !.hpc = "h_guard"]
    /\ UNCHANGED <<queue_, enq_order, wpc, sigFrame>>

\* DEBUG(...): if (yeti::GetLogLevel() >= yeti::LOG_LEVEL_DEBUG)
H_Guard ==
    /\ sig.hpc = "h_guard"
    /\ sig' = [sig EXCEPT !.hpc = IF MacroGuard("DBG", level_)
                                    THEN "h_enqueue" ELSE "h_notify"]
    /\ UNCHANGED <<queue_, enq_order, wpc, msg_id_, sigFrame>>

\* DEBUG(...): yeti::_EnqueueLogTask(data) -> Logger::EnqueueTask
H_Enqueue ==
    /\ sig.hpc = "h_enqueue"
    /\ EnqueueTask([tid |-> "signal", seq |-> sig.n, msg_id |-> sig.id])
    /\ sig' = [sig EXCEPT !.hpc = "h_notify"]
    /\ UNCHANGED <<msg_id_, pc, cur, ncalls, ctrlVars, cfgVars, out, fmtVars>>

\* Logger::Flush(): do { cv_.notify_one();
H_Notify ==
    /\ sig.hpc = "h_notify"
    /\ wpc' = NotifyOne(wpc)
    /\ sig' = [sig EXCEPT !.hpc = "h_isq"]
    /\ UNCHANGED <<queue_, enq_order, msg_id_, sigFrame>>

\* } while (!IsQueueEmpty() ...
H_IsQueueEmpty ==
    /\ sig.hpc = "h_isq"
    /\ queue_mutex_ = "free"
    /\ sig' = [sig EXCEPT !.hpc = IF queue_ = <<>> THEN "h_ise"
                                                   ELSE "h_notify"]
    /\ UNCHANGED <<queue_, enq_order, wpc, msg_id_, sigFrame>>

\* ... || !IsExecListEmpty());   Flush() returns when both were empty
H_IsExecListEmpty ==
    /\ sig.hpc = "h_ise"
    /\ exec_list_mutex_ = "free"
    /\ sig' = IF exec_list_ = <<>>
                THEN [sig EXCEPT !.hpc = "h_chain", !.flushes = @ + 1]
                ELSE [sig EXCEPT !.hpc = "h_notify"]
    /\ UNCHANGED <<queue_, enq_order, wpc, msg_id_, sigFrame>>

\* if (g_old_handlers[sig_num]) g_old_handlers[sig_num](sig_num);  and the
\* handler returns: the interrupted thread goes on
H_Chain ==
    /\ sig.hpc = "h_chain"
    /\ sig' = [sig EXCEPT !.hpc = "none", !.thr = "none",
                          !.chained = IF sig.old THEN @ + 1 ELSE @]
    /\ UNCHANGED <<queue_, enq_order, wpc, msg_id_, sigFrame>>

\* Locking a std::mutex the calling thread already owns is undefined: the
\* call blocks for ever (none of the steps above is enabled) or fails with
\* std::system_error, which ends the handler
H_Fault ==
    /\ \/ sig.hpc \in {"h_enqueue", "h_isq"} /\ queue_mutex_ = sig.thr
       \/ sig.hpc = "h_ise" /\ exec_list_mutex_ = sig.thr
    /\ sig' = [sig EXCEPT !.hpc = "fault"]
    /\ UNCHANGED <<queue_, enq_order, wpc, msg_id_, sigFrame>>

HandlerStep ==
    \/ H_GetId \/ H_IncId \/ H_Guard \/ H_Enqueue \/ H_Notify
    \/ H_IsQueueEmpty \/ H_IsExecListEmpty \/ H_Chain

\* the steps of a thread that is not inside the signal handler
SigWorker == sig.thr # "worker" /\ WorkerRun
SigSpurious == sig.thr # "worker" /\ W_Spurious
SigProduce(t) == sig.thr # t /\ Produce(t)
SigSetLogLevel(l) == sig.thr # "main" /\ SetLogLevel(l)

\* The pipeline with a signal arriving: producers calling EnqueueTask, the
\* control thread setting the level, the worker, and the handler on the
\* stack of whichever thread took the signal.
SigNext ==
    \/ SigWorker
    \/ SigSpurious
    \/ \E t \in Producers : SigProduce(t)
    \/ \E l \in Levels : SigSetLogLevel(l)
    \/ \E t \in Threads : \E old \in BOOLEAN : SignalDeliver(t, old)
    \/ HandlerStep
    \/ H_Fault

SigSpec == Init /\ [][SigNext]_vars

\* Scheduling: the worker, when it is not interrupted, eventually takes a
\* step it can take; the handler eventually takes a step that is possible
\* again and again (it gets a mutex that keeps being released).  Nothing
\* obliges the condition variable to wake up spuriously.
SigFairSpec ==
    /\ SigSpec
    /\ WF_vars(SigWorker)
    /\ SF_vars(HandlerStep)

\* ------------------------------------------------- the locking protocol
\* Every thread's use of queue_mutex_ and exec_list_mutex_, with the
\* acquisition, the critical section and the release as separate steps.
\* The two mutex variables hold the owner: "free", "worker" or the name
\* of the calling thread.  A producer thread calls EnqueueTask,
\* IsQueueEmpty, IsExecListEmpty or Flush; the control thread calls
\* Shutdown; the worker runs ProcessingLoop.

LockOps == {"enqueue", "isqueueempty", "isexeclistempty", "flush"}

\* the first position of a call
LockEntry(op) ==
    CASE op = "enqueue" -> "enq_lock"
      [] op = "isqueueempty" -> "isq_lock"
      [] op = "isexeclistempty" -> "ise_lock"
      [] op = "flush" -> "fl_notify"

\* the position after a std::lock_guard has been constructed
LockHeld(p) ==
    CASE p = "enq_lock" -> "enq_push"
      [] p = "isq_lock" -> "isq_held"
      [] p = "fl_isq_lock" -> "fl_isq_held"
      [] p = "ise_lock" -> "ise_held"
      [] p = "fl_ise_lock" -> "fl_ise_held"

\* ~lock_guard(): the mutex is released at the end of the scope
LockGuardExit_keep(m) == m
LockGuardExit(m) == "free"

\* a thread enters EnqueueTask, IsQueueEmpty, IsExecListEmpty or Flush
L_Call(t, op) ==
    /\ pc[t] = "idle"
    /\ ncalls < MaxLockCalls
    /\ ncalls' = ncalls + 1
    /\ pc' = [pc EXCEPT ![t] = LockEntry(op)]
    /\ UNCHANGED <<cur, msg_id_, pipeVars, ctrlVars, out, extVars>>

\* std::lock_guard<std::mutex> lock(queue_mutex_); in EnqueueTask and in
\* IsQueueEmpty
L_LockQueue(t) ==
    /\ pc[t] \in {"enq_lock", "isq_lock", "fl_isq_lock"}
    /\ queue_mutex_ = "free"
    /\ queue_mutex_' = t
    /\ pc' = [pc EXCEPT ![t] = LockHeld(pc[t])]
    /\ UNCHANGED <<queue_, exec_list_, exec_list_mutex_, wpc, enq_order,
                   executed, discarded, cur, ncalls, msg_id_, ctrlVars, out,
                   extVars>>

\* std::lock_guard<std::mutex> lock(exec_list_mutex_); in IsExecListEmpty
L_LockExecList(t) ==
    /\ pc[t] \in {"ise_lock", "fl_ise_lock"}
    /\ exec_list_mutex_ = "free"
    /\ exec_list_mutex_' = t
    /\ pc' = [pc EXCEPT ![t] = LockHeld(pc[t])]
    /\ UNCHANGED <<queue_, exec_list_, queue_mutex_, wpc, enq_order,
                   executed, discarded, cur, ncalls, msg_id_, ctrlVars, out,
                   extVars>>

\* EnqueueTask: queue_.push(queue_func);
L_Push(t) ==
    /\ pc[t] = "enq_push"
    /\ queue_' = Append(queue_, [tid |-> t, seq |-> cur[t].seq + 1,
                                 msg_id |-> NoId])
    /\ enq_order' = Append(enq_order, [tid |-> t, seq |-> cur[t].seq + 1,
                                       msg_id |-> NoId])
    /\ cur' = [cur EXCEPT ![t].seq = @ + 1]
    /\ pc' = [pc EXCEPT ![t] = "enq_notify"]
    /\ UNCHANGED <<exec_list_, queue_mutex_, exec_list_mutex_, wpc, executed,
                   discarded, ncalls, msg_id_, ctrlVars, out, extVars>>

\* EnqueueTask: cv_.notify_one(); and the end of the scope of queue_lock
L_NotifyUnlock(t) ==
    /\ pc[t] = "enq_notify"
    /\ wpc' = NotifyOne(wpc)
    /\ queue_mutex_' = LockGuardExit(queue_mutex_)
    /\ pc' = [pc EXCEPT ![t] = "idle"]
    /\ UNCHANGED <<queue_, exec_list_, exec_list_mutex_, enq_order, executed,
                   discarded, cur, ncalls, msg_id_, ctrlVars, out, extVars>>

\* IsQueueEmpty: return queue_.empty(); called on its own or as the first
\* operand of the condition of Flush
L_IsQueueEmptyReturn(t) ==
    /\ pc[t] \in {"isq_held", "fl_isq_held"}
    /\ queue_mutex_' = LockGuardExit(queue_mutex_)
    /\ pc' = [pc EXCEPT ![t] =
                 IF pc[t] = "isq_held" THEN "idle"
                 ELSE IF queue_ = <<>> THEN "fl_ise_lock" ELSE "fl_notify"]
    /\ UNCHANGED <<queue_, exec_list_, exec_list_mutex_, wpc, enq_order,
                   executed, discarded, cur, ncalls, msg_id_, ctrlVars, out,
                   extVars>>

\* IsExecListEmpty: return exec_list_.empty(); called on its own or as the
\* second operand of the condition of Flush
L_IsExecListEmptyReturn(t) ==
    /\ pc[t] \in {"ise_held", "fl_ise_held"}
    /\ exec_list_mutex_' = LockGuardExit(exec_list_mutex_)
    /\ pc' = [pc EXCEPT ![t] =
                 IF pc[t] = "ise_held" \/ exec_list_ = <<>> THEN "idle"
                 ELSE "fl_notify"]
    /\ UNCHANGED <<queue_, exec_list_, queue_mutex_, wpc, enq_order,
                   executed, discarded, cur, ncalls, msg_id_, ctrlVars, out,
                   extVars>>

\* Flush: do { cv_.notify_one();
L_FlushNotify(t) ==
    /\ pc[t] = "fl_notify"
    /\ wpc' = NotifyOne(wpc)
    /\ pc' = [pc EXCEPT ![t] = "fl_isq_lock"]
    /\ UNCHANGED <<queue_, exec_list_, queue_mutex_, exec_list_mutex_,
                   enq_order, executed, discarded, cur, ncalls, msg_id_,
                   ctrlVars, out, extVars>>

\* the worker's IsQueueEmpty() in the condition of its loop: the lock
L_W_LockQueue ==
    /\ wpc = "isqempty"
    /\ queue_mutex_ = "free"
    /\ queue_mutex_' = "worker"
    /\ wpc' = "isq_held"
    /\ UNCHANGED <<queue_, exec_list_, exec_list_mutex_, enq_order, executed,
                   discarded, prodVars, ctrlVars, out, extVars>>

\* the worker's IsQueueEmpty() in the condition of its loop: the return
L_W_IsQueueEmptyReturn ==
    /\ wpc = "isq_held"
    /\ queue_mutex_' = LockGuardExit(queue_mutex_)
    /\ wpc' = IF LoopAgain(queue_ = <<>>) THEN "lock" ELSE "exiting"
    /\ UNCHANGED <<queue_, exec_list_, exec_list_mutex_, enq_order, executed,
                   discarded, prodVars, ctrlVars, out, extVars>>

LockStep(t) ==
    \/ L_LockQueue(t) \/ L_LockExecList(t) \/ L_Push(t) \/ L_NotifyUnlock(t)
    \/ L_IsQueueEmptyReturn(t) \/ L_IsExecListEmptyReturn(t)
    \/ L_FlushNotify(t)

LockWorker ==
    \/ WorkerRun \/ L_W_LockQueue \/ L_W_IsQueueEmptyReturn \/ W_Return

LockNext ==
    \/ LockWorker
    \/ W_Spurious
    \/ \E t \in Producers : \E op \in LockOps : L_Call(t, op)
    \/ \E t \in Producers : LockStep(t)
    \/ ShutdownCall
    \/ S_Notify \/ S_Joinable \/ S_Join

LockSpec == Init /\ [][LockNext]_vars

\* ================================================================ claims
\* number of occurrences of x in the sequence s
Count(s, x) == Cardinality({i \in 1..Len(s) : s[i] = x})

\* the tasks pushed so far
Enqueued == {enq_order[i] : i \in 1..Len(enq_order)}

\* C1: when Flush() returns, every task that had been pushed before Flush()
\* was called has been run exactly once and is neither in the queue nor in
\* the execution list any more.
C1_FlushGuarantee ==
    \A i \in 1..Len(enq_order) :
        i <= mop.flushed =>
            /\ Count(executed, enq_order[i]) = 1
            /\ Count(queue_, enq_order[i]) = 0
            /\ Count(exec_list_, enq_order[i]) = 0

\* a Flush() has returned that was called after both producers had pushed
C1_Witness ==
    /\ mop.flushed >= 2
    /\ mpc = "idle"
    /\ ~stop_loop_
    /\ enq_order[1].tid # enq_order[2].tid

\* C2: the tasks are run in the order in which EnqueueTask pushed them under
\* the queue lock: the run order is a prefix of the push order.
C2_StrictFifo ==
    /\ Len(executed) <= Len(enq_order)
    /\ \A i \in 1..Len(executed) : executed[i] = enq_order[i]

\* two tasks of different producers were run while a later one waits in the
\* queue for the next drain
C2_Witness ==
    /\ Len(executed) >= 2
    /\ executed[1].tid # executed[2].tid
    /\ exec_list_ = <<>>
    /\ queue_ # <<>>

\* C3: every pushed task is in exactly one place: the queue, the execution
\* list, or discarded after its run; and no task is run more than once.
C3_ExactlyOnePlace ==
    \A x \in Enqueued :
        /\ Count(enq_order, x) = 1
        /\ Count(queue_, x) + Count(exec_list_, x)
              + (IF x \in discarded THEN 1 ELSE 0) = 1
        /\ Count(executed, x) <= 1
        /\ (x \in discarded) => Count(executed, x) = 1
        /\ Count(queue_, x) = 1 => Count(executed, x) = 0

\* tasks sit in all three places at once
C3_Witness ==
    /\ queue_ # <<>>
    /\ exec_list_ # <<>>
    /\ discarded # {}

C5_ShutdownReturns ==
    (mpc \in {"s_notify", "s_joinable", "s_join"}) ~> (mpc = "idle")

\* C9: the worker enters TERMINATED only with the stop flag set and the
\* queue and the execution list both empty.
C9_ExitOnlyWhenEmpty ==
    [][(wpc # "terminated" /\ wpc' = "terminated") =>
          (stop_loop_' /\ queue_' = <<>> /\ exec_list_' = <<>>)]_vars

\* C10: a Shutdown() called after an earlier Shutdown() has returned never
\* reaches the join, never faults, can always take its next step, and
\* leaves the stop flag set and both containers as they are.
C10_SecondShutdownSafe ==
    [][/\ (mop.nshut >= 1 /\ mpc = "idle" /\ mpc' = "s_notify") =>
            (stop_loop_' /\ queue_' = queue_ /\ exec_list_' = exec_list_)
       /\ (mop.nshut >= 2 /\ mpc \in {"s_notify", "s_joinable", "s_join"}) =>
            /\ ENABLED ControlStep
            /\ mpc' # mpc =>
                 /\ mpc' \in {"s_joinable", "idle"}
                 /\ stop_loop_'
                 /\ queue_' = queue_
                 /\ exec_list_' = exec_list_
                 /\ joinable' = joinable]_vars

\* the second Shutdown() has returned, with a task left in the queue
C10_Witness ==
    /\ mop.nshut = 2
    /\ mop.nflush = 0
    /\ mpc = "idle"
    /\ ~joinable
    /\ queue_ # <<>>

\* ---------------------------------------------------- claims on log macros
\* severity of a level tag: TRACE < DEBUG < INFO < WARNING < ERROR < CRITICAL
Severity(l) ==
    CASE l = "TRC" -> 0
      [] l = "DBG" -> 1
      [] l = "INF" -> 2
      [] l = "WRN" -> 3
      [] l = "ERR" -> 4
      [] l = "CRT" -> 5

\* C6: no two records carry the same msg_id.
C6_DistinctIds ==
    \A i, j \in 1..Len(enq_order) :
        i # j => enq_order[i].msg_id # enq_order[j].msg_id

\* C7: the msg_id a thread gets in a log call is greater than the one it
\* got in its previous log call.
C7_IdsIncreasePerThread ==
    [][\A t \in Producers :
          (pc[t] = "idle" /\ pc'[t] = "incid" /\ cur[t].id # NoId) =>
              cur'[t].id > cur[t].id]_vars

\* a thread is in its second log call after the other thread made a call
C7_Witness ==
    \E t \in Producers, u \in Producers :
        /\ t # u
        /\ cur[t].seq = 2
        /\ pc[t] = "incid"
        /\ cur[u].seq = 1
        /\ cur[u].id > 0

C11_HandlerCompletes ==
    /\ [](sig.chained <= sig.flushes)
    /\ (sig.thr # "none") ~> (sig.thr = "none")

\* ------------------------------------------------ claims about streams
\* position of a task in a history (tasks are distinct)
Pos(h, task) == CHOOSE i \in 1..Len(h) : h[i] = task

\* C12: CloseFileDesc(fd) on a stream that is not a standard one enqueues
\* exactly one close task and closes nothing itself, and the close runs after
\* every write task to that stream that was enqueued before it; for stdin,
\* stdout and stderr no task is enqueued and the stream is never closed.
C12_CloseAfterWrites ==
    /\ \A r \in 1..Len(close_req) :
          LET tasks == {i \in 1..Len(enq_order) :
                            /\ Kind(enq_order[i]) = "close"
                            /\ enq_order[i].seq = close_req[r].seq}
          IN  /\ Cardinality(tasks) =
                     IF close_req[r].fd \in StdStreams THEN 0 ELSE 1
              /\ \A i \in tasks : enq_order[i].fd = close_req[r].fd
    /\ \A j \in 1..Len(out) :
          out[j].op = "close" =>
              /\ out[j].fd \notin StdStreams
              /\ \E k \in 1..Len(executed) :
                    /\ Kind(executed[k]) = "close"
                    /\ <<executed[k].tid, executed[k].seq>> = out[j].id
    /\ \A j \in 1..Len(executed) :
          Kind(executed[j]) = "close" =>
              \A i \in 1..(Pos(enq_order, executed[j]) - 1) :
                  (/\ Kind(enq_order[i]) = "print"
                   /\ enq_order[i].fd = executed[j].fd)
                  => \E k \in 1..(j - 1) : executed[k] = enq_order[i]

\* a stream has been closed by the worker after a record was written to it
C12_Witness ==
    \E j \in 1..Len(out) : \E k \in 1..(j - 1) :
        /\ out[j].op = "close"
        /\ out[k].op = "write"
        /\ out[k].fd = out[j].fd

\* whether the settings a task carries are those read for its record
Captured(task) ==
    /\ <<<<task.tid, task.seq>>, "log_format", task.log_format>> \in snap
    /\ <<<<task.tid, task.seq>>, "fd", task.fd>> \in snap
    /\ <<<<task.tid, task.seq>>, "is_colored", task.is_colored>> \in snap

\* C13: a print task, while queued, while executing and in what it writes,
\* uses the format template, the output stream and the color flag that
\* _EnqueueLogTask read for its record, whatever SetFormatStr, SetFileDesc
\* and SetColored have set since.
C13_ConfigSnapshot ==
    /\ \A i \in 1..Len(queue_) :
          Kind(queue_[i]) = "print" => Captured(queue_[i])
    /\ \A i \in 1..Len(exec_list_) :
          Kind(exec_list_[i]) = "print" => Captured(exec_list_[i])
    /\ \A i \in 1..Len(out) :
          out[i].op = "write" =>
              /\ <<out[i].id, "log_format", out[i].log_format>> \in snap
              /\ <<out[i].id, "fd", out[i].fd>> \in snap
              /\ \E c \in BOOLEAN :
                    /\ <<out[i].id, "is_colored", c>> \in snap
                    /\ out[i].colored = (c /\ IsATty(out[i].fd))

\* the worker is inside a print task (its effect is the last of out) and the
\* logger's template and stream are no longer the ones the task captured
C13_Witness ==
    /\ wpc = "pop"
    /\ Kind(Head(exec_list_)) = "print"
    /\ out[Len(out)].id = <<Head(exec_list_).tid, Head(exec_list_).seq>>
    /\ out[Len(out)].log_format # format_str_
    /\ out[Len(out)].fd # fd_

\* the CloseFileDesc call, by its number in close_req, that pushed the close
\* task with effect e
Request(e) == CHOOSE r \in 1..Len(close_req) : close_req[r].seq = e.id[2]

\* C20: no print task that captured fd is run after the close task for fd
\* has run; stated for the records whose stream was read before that
\* CloseFileDesc call was made.
C20_NoWriteAfterClose ==
    \A i \in 1..Len(out) : \A j \in (i + 1)..Len(out) :
        (/\ out[i].op = "close"
         /\ out[j].op = "write"
         /\ out[j].fd = out[i].fd)
        => \A n \in 0..Len(close_req) :
              <<out[j].id, "closes", n>> \in snap => n >= Request(out[i])

\* --------------------------------------- claims about the format engine
Recognized == {"L", "M", "P"}

\* the value a record gives to a placeholder
ValueOf(k, m) ==
    CASE k = "L" -> LevelText
      [] k = "M" -> m
      [] k = "P" -> PidText

\* whether text v contains the literal of a recognized placeholder
HasToken(v) ==
    \E i \in 1..Len(v) : \E k \in Recognized : MatchAt(v, i, Token(k))

\* Reference substitution: the template is read once from left to right and
\* each placeholder met in it gives way to its value; the values are not
\* read again.
RECURSIVE RefSubst(_, _)
RefSubst(s, m) ==
    IF s = <<>> THEN <<>>
    ELSE IF \E k \in Recognized : MatchAt(s, 1, Token(k))
      THEN ValueOf(s[2], m) \o RefSubst(SubSeq(s, 3, Len(s)), m)
      ELSE <<s[1]>> \o RefSubst(Tail(s), m)

\* number of places of text s at which key is
Occ(s, key) == Cardinality({i \in 1..Len(s) : MatchAt(s, i, key)})

\* C14: no double substitution: when the message contains the literal of a
\* recognized placeholder, the result of _CreateLogStr is still the reference
\* substitution of the template: the text that came in as the value of a
\* placeholder is in the output as it is.
C14_NoDoubleSubstitution ==
    (fpc = "done" /\ HasToken(msg)) => result = RefSubst(log_format, msg)

\* C15: complete substitution: when the field values contain no placeholder
\* literal, every placeholder of the template is replaced by the record's
\* value (the result is the reference substitution of the template).
C15_CompleteSubstitution ==
    (fpc = "done" /\ ~HasToken(msg)) => result = RefSubst(log_format, msg)

\* C16: a template without recognized placeholder is returned as it is, and
\* a placeholder that is not recognized (<<"%","a">>) stays where the
\* template has it: none of its occurrences is lost.
C16_IdentityOnTokenFree ==
    fpc = "done" =>
        /\ ~HasToken(log_format) => result = log_format
        /\ Occ(result, Token("a")) >= Occ(log_format, Token("a"))

\* a template with a recognized and an unrecognized placeholder has been
\* rendered: the first was replaced, the second is in the result
C16_Witness ==
    /\ fpc = "done"
    /\ log_format = <<"%", "a", "%", "M">>
    /\ msg = <<"a", "a">>
    /\ result = <<"%", "a", "a", "a">>

\* C19: formatting terminates: the loop of _CreateLogStr depends on result
\* and on the entry being replaced only, so it makes finitely many
\* replacements only if no replacement leaves result as it was.
C19_FormattingTerminates ==
    [][(fpc = "loop" /\ nrep' = nrep + 1) => result' # result]_vars

\* ------------------------------------- claims about the worker and Flush
\* C17: whenever the worker is executing a task it does not hold the queue
\* lock, so a producer's EnqueueTask can take the lock and complete.
C17_EnqueueNotBlocked ==
    (wpc \in {"exec", "pop"} /\ exec_list_ # <<>>) =>
        /\ queue_mutex_ # "worker"
        /\ \A t \in Producers :
              (pc[t] = "idle" /\ ncalls < MaxCalls) => ENABLED Produce(t)

\* the worker is inside a task and a task pushed since the drain is queued
C17_Witness ==
    /\ wpc = "pop"
    /\ queue_ # <<>>

\* C18: Flush(), in whatever state of the logger it is called, returns once
\* the producers have stopped, and it does not set the stop flag.
C18_FlushReturns ==
    /\ [][(mpc \in {"f_notify", "f_isq", "f_ise", "f_ret"}) =>
              (stop_loop_' = stop_loop_)]_vars
    /\ (mpc \in {"f_notify", "f_isq", "f_ise", "f_ret"}) ~> (mpc = "idle")

\* ---------------------------------------- claims about the locking protocol
LockThreads == Producers \cup {"worker"}

\* the mutex a thread is about to acquire ("none": it is not at a lock)
Wants(t) ==
    IF t = "worker"
      THEN IF wpc \in {"lock", "woken", "isqempty"} THEN "queue_mutex_"
           ELSE IF wpc = "exec_lock" THEN "exec_list_mutex_" ELSE "none"
      ELSE IF pc[t] \in {"enq_lock", "isq_lock", "fl_isq_lock"}
             THEN "queue_mutex_"
           ELSE IF pc[t] \in {"ise_lock", "fl_ise_lock"}
             THEN "exec_list_mutex_" ELSE "none"

Holder(m) == IF m = "queue_mutex_" THEN queue_mutex_ ELSE exec_list_mutex_

\* every thread of S is at a lock that a thread of S holds
WaitCycle(S) ==
    \A t \in S : Wants(t) # "none" /\ Holder(Wants(t)) \in S

\* C21: the locking protocol is free of deadlock: no set of threads, and so
\* not the set of all threads, has each member waiting for a lock that a
\* member holds; no thread wants the queue lock while it holds the
\* execution-list lock, no thread but the worker holds or wants one lock
\* while it holds the other, and the worker has released the queue lock
\* when it executes tasks.
C21_DeadlockFree ==
    /\ \A S \in SUBSET LockThreads : S # {} => ~WaitCycle(S)
    /\ \A t \in LockThreads :
          exec_list_mutex_ = t => Wants(t) # "queue_mutex_"
    /\ \A t \in Producers :
          /\ ~(queue_mutex_ = t /\ exec_list_mutex_ = t)
          /\ queue_mutex_ = t => Wants(t) = "none"
          /\ exec_list_mutex_ = t => Wants(t) = "none"
    /\ wpc \in {"exec", "pop"} =>
          (queue_mutex_ # "worker" /\ exec_list_mutex_ = "worker")

\* the longest chain of waiting the protocol allows: p2 waits for the
\* queue lock, which the worker holds while it waits for the
\* execution-list lock, which p1 holds inside IsExecListEmpty()
C21_Witness ==
    /\ pc["p2"] = "enq_lock"
    /\ queue_mutex_ = "worker"
    /\ wpc = "exec_lock"
    /\ exec_list_mutex_ = "p1"
    /\ pc["p1"] \in {"ise_held", "fl_ise_held"}

====
